---- MODULE Spec2Model ----
(***************************************************************************)
(* Model of discord.py-lifesaver:                                          *)
(*   - the periodic task runner of lifesaver.bot.cog.Cog                   *)
(*     (Cog.every, Cog._setup_schedules, its closure `wrapped`, __unload)  *)
(*   - the reaction pager of lifesaver.utils.paginator                     *)
(*     (Paginator, ListPaginator)                                          *)
(*   - the configuration loader of lifesaver.config (Field, Config)        *)
(*   - the helpers of lifesaver.commands.context.Context                   *)
(*     (wait_for_response, pick_from_list, ok)                             *)
(*   - the command error handler of lifesaver.bot.exts.errors.Errors       *)
(***************************************************************************)
EXTENDS Integers, Sequences, FiniteSets, TLC

(* ------------------------------ bounds --------------------------------- *)
\* longest dir(self) listing of a cog that is explored
MaxAttrs == 2
\* how many calls of func (over all tasks of the cog) are explored
MaxInvocations == 2
\* how many times the host may call __unload
MaxUnloads == 2
\* how many insects the store may hold before the exploration stops
MaxInsects == 2
\* how many unexpected command failures are handled at the same time
MaxFailures == 2
\* most choices handed to Context.pick_from_list
MaxChoices == 2
\* largest `tries` handed to Context.pick_from_list
MaxTries == 3
\* most items handed to a ListPaginator
MaxItems == 3
\* largest per_page handed to a ListPaginator
MaxPerPage == 2
\* page index at which the exploration stops dispatching reactions
MaxPage == 4

(* ------------------------------ helpers -------------------------------- *)
Last(s) == s[Len(s)]

RECURSIVE SelectIdx(_, _, _)
\* the indices i (ascending) of s for which s[i] passes Test
SelectIdx(s, Test(_), i) ==
    IF i > Len(s) THEN <<>>
    ELSE (IF Test(s[i]) THEN <<i>> ELSE <<>>) \o SelectIdx(s, Test, i + 1)

\* "no reaction_add event was dispatched by the latest step"
NoReaction == [user |-> [id |-> "", bot |-> FALSE], emoji |-> "", message_id |-> ""]

\* "no method of the pager was called from outside by the latest step"
NoCall == [op |-> "", exc |-> "none"]

(*************************** Periodic task runner **************************)

\* keyword arguments a caller may hand to Cog.every: wait_until_ready as a
\* flag of either value, initial_sleep given or not
Kwargs ==
    {kw \in UNION {[K -> BOOLEAN] : K \in SUBSET {"wait_until_ready", "initial_sleep"}} :
        "initial_sleep" \in DOMAIN kw => kw["initial_sleep"]}

\* Cog.every: func._schedule = {'interval': interval}; update(kwargs)
every(interval, kwargs) ==
    [k \in {"interval"} \cup DOMAIN kwargs |->
        IF k \in DOMAIN kwargs THEN kwargs[k] ELSE interval]

\* what getattr(self, key) may return: a method marked by Cog.every with the
\* given interval, or any other attribute (what calling and awaiting that
\* one does is left open)
Attrs(interval) ==
    {[kind |-> "other"]}
    \cup {("kind" :> "method") @@ ("_schedule" :> every(interval, kw)) : kw \in Kwargs}

\* hasattr(func, '_schedule')
hasSchedule(func) == "_schedule" \in DOMAIN func

\* dir(self) listings (in dir()'s sorted order) that are explored; the method
\* at key k is given the interval k, so that no two methods of a cog share a
\* schedule dict by accident
Dirs ==
    UNION {{d \in [1..n -> UNION {Attrs(k) : k \in 1..n}] :
               \A k \in 1..n : d[k] \in Attrs(k)} : n \in 1..MaxAttrs}

VARIABLES
    attrs,            \* getattr(self, key) for key in dir(self), in order
    initialized,      \* Cog.__init__ has run _setup_schedules
    func,             \* the closure cell `func` of _setup_schedules (a key of dir)
    schedule,         \* the closure cell `schedule` of _setup_schedules
    scheduled_tasks,  \* self._scheduled_tasks: one record per task handle
    ready,            \* the bot's readiness signal has fired
    unloads           \* how many times __unload has run

cogVars == <<attrs, initialized, func, schedule, scheduled_tasks, ready, unloads>>

VARIABLES
    things,       \* ListPaginator.things (the items are 1..N)
    per_page,     \* ListPaginator.per_page
    invoker,      \* Paginator.invoker
    page,         \* Paginator.page
    stopped,      \* Paginator.stopped
    message,      \* the message on the platform: "none", "live" or "deleted"
    loop,         \* where create()/handle_events stands:
                  \*   "new", "waiting" (in bot.wait_for), "ended", "error"
    lastReaction, \* the reaction_add event dispatched by the latest step
    accepted,     \* what reaction_check returned for it
    lastCall,     \* the method called from outside by the latest step, and
                  \*   the exception it raised
    ops           \* the platform calls made by the latest step

pagerVars ==
    <<things, per_page, invoker, page, stopped, message, loop, lastReaction,
      accepted, lastCall, ops>>

VARIABLES
    fields,       \* getattr(self, key) for the keys of dir(self) of a Config
                  \*   subclass: a Field or something else
    strict,       \* the class attribute `strict`
    data,         \* the mapping handed to Config.__init__
    instance      \* the outcome of the construction and self.__dict__

configVars == <<fields, strict, data, instance>>

VARIABLES
    ctx,              \* the Context of the command: its channel and author
    waiting,          \* where wait_for_response stands: "idle", "waiting"
                      \*   (in bot.wait_for) or "returned"
    lastMessage,      \* the message event dispatched by the latest step
    response,         \* the message wait_for_response returned
    acknowledgement,  \* what Context.ok did: how it ended and the actions it
                      \*   tried, with their outcomes
    picker            \* the call of Context.pick_from_list: its arguments,
                      \*   its locals, where it stands, what it returned

contextVars == <<ctx, waiting, lastMessage, response, acknowledgement, picker>>

VARIABLES
    ignored_errors,   \* ctx.bot.ignored_errors
    error,            \* the error handed to the latest on_command_error
    sent,             \* the responses that call sent with ctx.send
    insects,          \* the list stored under 'insects' in insects.json
    failures,         \* one record per on_command_error call that handles
                      \*   an unexpected failure step by step: where it
                      \*   stands, its local list, its id, the id it reported
    insect_creation_lock,  \* the failure that holds the lock, or 0
    clock               \* time.time(), counted in entries of the locked block

errorsVars ==
    <<ignored_errors, error, sent, insects, failures, insect_creation_lock, clock>>

\* the state of the helpers a run about a cog or a pager does not touch
libVars == <<configVars, contextVars, errorsVars>>

\* "no message": nothing dispatched, nothing returned
NoMessage == [channel |-> [id |-> "", kind |-> ""], author |-> [id |-> "", bot |-> FALSE]]

\* Context.ok has not been called
NoAck == [status |-> "none", attempts |-> <<>>]

\* what pick_from_list returns when nothing was picked (None)
NonePicked == [item |-> 0]

\* "no response was handed to pick_from_list by the latest step"
NoResponse == [accepted |-> FALSE, content |-> <<>>]

\* the frame of pick_from_list(choices, delete_after_choice=..., tries=...)
\* before its first statement
NewPicker(choices, delete_after_choice, tries) ==
    [pc |-> "new", choices |-> choices, delete_after_choice |-> delete_after_choice,
     tries |-> tries, remaining_tries |-> tries, picked |-> NonePicked,
     heard |-> NoResponse, calls |-> <<>>]

\* the Config of a run that is about something else: never constructed
NoConfig ==
    /\ fields = <<>>
    /\ strict = FALSE
    /\ data = <<>>
    /\ instance = [status |-> "none", dict |-> <<>>]

\* the Context of a run that is about something else: no command invoked
NoContext ==
    /\ ctx = NoMessage
    /\ waiting = "idle"
    /\ lastMessage = NoMessage
    /\ response = NoMessage
    /\ acknowledgement = NoAck
    /\ picker = NewPicker(<<>>, FALSE, 0)

\* the error handler of a run that is about something else
NoErrors ==
    /\ ignored_errors = {}
    /\ error = ""
    /\ sent = <<>>
    /\ insects = <<>>
    /\ failures = <<>>
    /\ insect_creation_lock = 0
    /\ clock = 0

NoLib == NoConfig /\ NoContext /\ NoErrors

\* the keys of dir(self) that carry a schedule, in order
MarkedKeys == SelectIdx(attrs, hasSchedule, 1)

\* a task handle fresh from loop.create_task(wrapped()): the coroutine body
\* has not run yet
NewTask == [pc |-> "created", log |-> <<>>, cancels |-> 0]

Event(ev, arg) == [ev |-> ev, arg |-> arg, ready |-> ready]

Invocations(task) == SelectIdx(task.log, LAMBDA e : e.ev = "invoke", 1)

\* Cog._setup_schedules: the for loop over dir(self).  Every pass rebinds
\* `func`; a pass over a marked method also rebinds `schedule` and creates a
\* task.  wrapped() only creates the coroutine object: no body runs before
\* the loop is over, so every body sees the cells as the loop left them.
setup_schedules ==
    /\ ~initialized
    /\ initialized' = TRUE
    /\ func' = Len(attrs)
    /\ schedule' = IF MarkedKeys = <<>> THEN <<>>
                   ELSE attrs[Last(MarkedKeys)]["_schedule"]
    /\ scheduled_tasks' = [i \in 1..Len(MarkedKeys) |-> NewTask]
    /\ UNCHANGED <<attrs, ready, unloads>>
    /\ UNCHANGED <<pagerVars, libVars>>

\* `await func()` in wrapped: the call runs func up to its first suspension
Invoke(task) ==
    [task EXCEPT !.pc = "in_func", !.log = Append(@, Event("invoke", func))]

\* a loop top that never takes the initial sleep
LoopTop_NoInitialSleep(task) == Invoke(task)

\* top of `while True` in wrapped: sleep first when the schedule has an
\* 'initial_sleep' key, else call func at once
LoopTop(task) ==
    IF "initial_sleep" \in DOMAIN schedule
    THEN [task EXCEPT !.pc = "sleep_initial"]
    ELSE Invoke(task)

RECURSIVE Sum(_)
Sum(s) == IF s = <<>> THEN 0 ELSE Head(s) + Sum(Tail(s))

\* exploration horizon (not in the source): the tasks of the cog have made
\* fewer than MaxInvocations calls of func between them
MayInvoke ==
    Sum([t \in DOMAIN scheduled_tasks |-> Len(Invocations(scheduled_tasks[t]))])
        < MaxInvocations

\* first step of wrapped(): wait for readiness when the schedule has a
\* 'wait_until_ready' key, else enter the loop
wrapped_start(t) ==
    /\ initialized
    /\ scheduled_tasks[t].pc = "created"
    /\ MayInvoke
    /\ scheduled_tasks' = [scheduled_tasks EXCEPT ![t] =
          IF "wait_until_ready" \in DOMAIN schedule
          THEN [@ EXCEPT !.pc = "wait_ready"]
          ELSE LoopTop(@)]
    /\ UNCHANGED <<attrs, initialized, func, schedule, ready, unloads>>
    /\ UNCHANGED <<pagerVars, libVars>>

\* await self.bot.wait_until_ready() returns
wrapped_ready(t) ==
    /\ scheduled_tasks[t].pc = "wait_ready"
    /\ ready
    /\ scheduled_tasks' = [scheduled_tasks EXCEPT ![t] =
          LoopTop([@ EXCEPT !.log = Append(@, Event("ready", 0))])]
    /\ UNCHANGED <<attrs, initialized, func, schedule, ready, unloads>>
    /\ UNCHANGED <<pagerVars, libVars>>

\* await asyncio.sleep(schedule['interval']) returns: after the initial
\* sleep func is called, after the trailing sleep the loop starts over
wrapped_wake(t) ==
    /\ scheduled_tasks[t].pc \in {"sleep_initial", "sleep_interval"}
    /\ MayInvoke
    /\ LET slept == [scheduled_tasks[t] EXCEPT
                        !.log = Append(@, Event("sleep", schedule["interval"]))]
       IN scheduled_tasks' = [scheduled_tasks EXCEPT ![t] =
             IF @.pc = "sleep_initial" THEN Invoke(slept)
             ELSE LoopTop(slept)]
    /\ UNCHANGED <<attrs, initialized, func, schedule, ready, unloads>>
    /\ UNCHANGED <<pagerVars, libVars>>

\* await func() returns
func_return(t) ==
    /\ scheduled_tasks[t].pc = "in_func"
    /\ scheduled_tasks' = [scheduled_tasks EXCEPT ![t] =
          [@ EXCEPT !.pc = "sleep_interval",
                    !.log = Append(@, Event("return", func))]]
    /\ UNCHANGED <<attrs, initialized, func, schedule, ready, unloads>>
    /\ UNCHANGED <<pagerVars, libVars>>

\* await func() raises (the operation fails, or func is nothing that can be
\* called and awaited): wrapped has no try, the exception ends the task
RaiseOutcome(task) ==
    [task EXCEPT !.pc = "failed", !.log = Append(@, Event("raise", func))]

func_raise(t) ==
    /\ scheduled_tasks[t].pc = "in_func"
    /\ scheduled_tasks' = [scheduled_tasks EXCEPT ![t] = RaiseOutcome(@)]
    /\ UNCHANGED <<attrs, initialized, func, schedule, ready, unloads>>
    /\ UNCHANGED <<pagerVars, libVars>>

\* the host fires the readiness signal (at most once per process)
bot_ready ==
    /\ ~ready
    /\ ready' = TRUE
    /\ UNCHANGED <<attrs, initialized, func, schedule, scheduled_tasks, unloads>>
    /\ UNCHANGED <<pagerVars, libVars>>

\* a cancel that only reaches a task suspended in asyncio.sleep
cancel_SleepersOnly(task) ==
    [task EXCEPT !.cancels = @ + 1,
                 !.pc = IF @ \in {"sleep_initial", "sleep_interval"}
                        THEN "cancelled" ELSE @]

\* Task.cancel(): a finished task is left alone; any other task gets
\* CancelledError thrown in at its suspend point (or before its first step)
\* and unwinds through wrapped, which catches nothing
cancel(task) ==
    [task EXCEPT !.cancels = @ + 1,
                 !.pc = IF @ = "failed" THEN @ ELSE "cancelled"]

\* Cog.__unload: cancel every handle in self._scheduled_tasks
unload ==
    /\ initialized
    /\ unloads < MaxUnloads
    /\ unloads' = unloads + 1
    /\ scheduled_tasks' = [t \in DOMAIN scheduled_tasks |-> cancel(scheduled_tasks[t])]
    /\ UNCHANGED <<attrs, initialized, func, schedule, ready>>
    /\ UNCHANGED <<pagerVars, libVars>>

\* the pager of a run that is about something else: never created
NoPager ==
    /\ things = <<>>
    /\ per_page = 1
    /\ invoker = [id |-> "ann", bot |-> FALSE]
    /\ page = 0
    /\ stopped = FALSE
    /\ message = "none"
    /\ loop = "new"
    /\ lastReaction = NoReaction
    /\ accepted = FALSE
    /\ lastCall = NoCall
    /\ ops = <<>>

\* the cog of a run that is about something else: never initialized
NoCog ==
    /\ attrs = <<>>
    /\ initialized = FALSE
    /\ func = 0
    /\ schedule = <<>>
    /\ scheduled_tasks = <<>>
    /\ ready = FALSE
    /\ unloads = 0

InitCog ==
    /\ NoPager
    /\ NoLib
    /\ attrs \in Dirs
    /\ initialized = FALSE
    /\ func = 0
    /\ schedule = <<>>
    /\ scheduled_tasks = <<>>
    /\ ready = FALSE
    /\ unloads = 0

NextCog ==
    \/ setup_schedules
    \/ \E t \in DOMAIN scheduled_tasks : wrapped_start(t)
    \/ \E t \in DOMAIN scheduled_tasks : wrapped_ready(t)
    \/ \E t \in DOMAIN scheduled_tasks : wrapped_wake(t)
    \/ \E t \in DOMAIN scheduled_tasks : func_return(t)
    \/ \E t \in DOMAIN scheduled_tasks : func_raise(t)
    \/ bot_ready
    \/ unload

(****************************** Reaction pager *****************************)

\* accounts that may react: two people and one automated account
Users ==
    {[id |-> "ann", bot |-> FALSE], [id |-> "bob", bot |-> FALSE],
     [id |-> "robot", bot |-> TRUE]}

\* the keys of Paginator.actions
StopEmoji == "BLACK SQUARE FOR STOP"
PreviousEmoji == "BLACK LEFT-POINTING TRIANGLE"
NextEmoji == "BLACK RIGHT-POINTING TRIANGLE"

Emojis == {StopEmoji, PreviousEmoji, NextEmoji, "THUMBS UP SIGN"}

\* ids of the pager's own message and of some other message
OwnMessage == "own"
MessageIds == {OwnMessage, "elsewhere"}

\* reaction_add events the gateway may dispatch
Reactions == [user : Users, emoji : Emojis, message_id : MessageIds]


\* platform calls of one handler run that fail with an HTTPException other
\* than NotFound (a server error, a missing permission)
Failures == SUBSET {"edit", "delete", "remove_reaction"}

\* math.ceil(n / p) for n >= 0, p >= 1
ceil_div(n, p) == IF n % p = 0 THEN n \div p ELSE n \div p + 1

\* ListPaginator.max_pages
max_pages == ceil_div(Len(things), per_page)

\* the fields of the pager a handler run works on, with the calls it has made
\* and the exception it has raised so far
Self == [page |-> page, stopped |-> stopped, message |-> message,
         ops |-> <<>>, exc |-> "none"]

\* Paginator.stop: delete the message, then set stopped
stop(self, fail) ==
    LET called == [self EXCEPT !.ops = Append(@, "delete")]
    IN IF self.message = "deleted" THEN [called EXCEPT !.exc = "NotFound"]
       ELSE IF "delete" \in fail THEN [called EXCEPT !.exc = "HTTPException"]
       ELSE [called EXCEPT !.message = "deleted", !.stopped = TRUE]

\* an update that lets NotFound out
update_NotFoundRaises(self, fail) ==
    IF self.stopped THEN self
    ELSE LET called == [self EXCEPT !.ops = Append(@, "edit")]
         IN IF self.message = "deleted" THEN [called EXCEPT !.exc = "NotFound"]
            ELSE IF "edit" \in fail THEN [called EXCEPT !.exc = "HTTPException"]
            ELSE called

\* Paginator.update: edit the message in place; NotFound means stopped
update(self, fail) ==
    IF self.stopped THEN self
    ELSE LET called == [self EXCEPT !.ops = Append(@, "edit")]
         IN IF self.message = "deleted" THEN [called EXCEPT !.stopped = TRUE]
            ELSE IF "edit" \in fail THEN [called EXCEPT !.exc = "HTTPException"]
            ELSE called

\* Paginator.previous
previous(self, fail) ==
    IF self.page = 0 THEN self
    ELSE update([self EXCEPT !.page = @ - 1], fail)

\* a next without the last-page guard
next_NoGuard(self, fail) == update([self EXCEPT !.page = @ + 1], fail)

\* Paginator.next
next(self, fail) ==
    IF self.page = max_pages - 1 THEN self
    ELSE update([self EXCEPT !.page = @ + 1], fail)

\* a reaction_check that takes the controls from anybody
reaction_check_AnyUser(reaction) ==
    /\ ~reaction.user.bot
    /\ reaction.emoji \in {StopEmoji, PreviousEmoji, NextEmoji}
    /\ reaction.message_id = OwnMessage

\* Paginator.reaction_check
reaction_check(reaction) ==
    /\ ~reaction.user.bot
    /\ reaction.emoji \in {StopEmoji, PreviousEmoji, NextEmoji}
    /\ reaction.message_id = OwnMessage
    /\ reaction.user.id = invoker.id

\* Paginator.handle_reaction: look the emoji up in actions and run the action
handle_reaction(self, reaction, fail) ==
    IF reaction.emoji = StopEmoji THEN stop(self, fail)
    ELSE IF reaction.emoji = PreviousEmoji THEN previous(self, fail)
    ELSE IF reaction.emoji = NextEmoji THEN next(self, fail)
    ELSE self

\* a removal whose HTTPException is not caught
remove_reaction_Raises(self, fail) ==
    [self EXCEPT !.ops = Append(@, "remove_reaction"),
                 !.exc = IF self.message = "deleted" THEN "NotFound"
                         ELSE IF "remove_reaction" \in fail THEN "HTTPException"
                         ELSE @]

\* message.remove_reaction inside try/except HTTPException: pass (NotFound
\* is an HTTPException): whatever the call does, nothing is raised
remove_reaction(self, fail) == [self EXCEPT !.ops = Append(@, "remove_reaction")]

\* ListPaginator.format_things: one bulleted line per thing
format_things(ts) == [i \in DOMAIN ts |-> <<"BULLET", ts[i]>>]

\* things[starting_index : starting_index + per_page], a Python slice of a
\* list (0-based, clipped to the list) as a sequence
Slice(list, from, to) ==
    LET hi == IF to < Len(list) THEN to ELSE Len(list)
    IN [i \in 1..(IF hi > from THEN hi - from ELSE 0) |-> list[from + i]]

\* ListPaginator.get_page_contents
get_page_contents(p) ==
    LET starting_index == p * per_page
    IN format_things(Slice(things, starting_index, starting_index + per_page))

\* Paginator.create: send page 0, add the three controls, enter handle_events;
\* a send or an add_reaction that fails raises out of create
create(outcome) ==
    /\ loop = "new"
    /\ message' = IF outcome = "send_failed" THEN "none" ELSE "live"
    /\ loop' = IF outcome = "ok" THEN "waiting" ELSE "error"
    /\ lastReaction' = NoReaction
    /\ accepted' = FALSE
    /\ lastCall' = NoCall
    /\ ops' = <<>>
    /\ UNCHANGED <<things, per_page, invoker, page, stopped>>
    /\ UNCHANGED <<cogVars, libVars>>

\* one pass of the while loop of Paginator.handle_events for a dispatched
\* reaction_add event: wait_for drops it unless reaction_check passes
handle_events(reaction, fail) ==
    /\ loop = "waiting"
    /\ page < MaxPage
    /\ lastReaction' = reaction
    /\ accepted' = reaction_check(reaction)
    /\ lastCall' = NoCall
    /\ IF reaction_check(reaction)
       THEN LET handled == handle_reaction(Self, reaction, fail)
                after == IF handled.exc = "none" /\ ~handled.stopped
                         THEN remove_reaction(handled, fail) ELSE handled
            IN /\ page' = after.page
               /\ stopped' = after.stopped
               /\ message' = after.message
               /\ ops' = after.ops
               /\ loop' = IF after.exc # "none" THEN "error"
                          ELSE IF after.stopped THEN "ended" ELSE "waiting"
       ELSE /\ ops' = <<>>
            /\ UNCHANGED <<page, stopped, message, loop>>
    /\ UNCHANGED <<things, per_page, invoker>>
    /\ UNCHANGED <<cogVars, libVars>>

\* stop(), previous() or next() called on the pager by other code than its
\* own event loop; an exception goes to that caller
call(op, fail) ==
    /\ loop # "new"
    /\ message # "none"
    /\ page < MaxPage
    /\ LET after == IF op = "stop" THEN stop(Self, fail)
                    ELSE IF op = "previous" THEN previous(Self, fail)
                    ELSE next(Self, fail)
       IN /\ page' = after.page
          /\ stopped' = after.stopped
          /\ message' = after.message
          /\ ops' = after.ops
          /\ lastCall' = [op |-> op, exc |-> after.exc]
    /\ lastReaction' = NoReaction
    /\ accepted' = FALSE
    /\ UNCHANGED <<things, per_page, invoker, loop>>
    /\ UNCHANGED <<cogVars, libVars>>

\* somebody else deletes the pager's message
external_delete ==
    /\ message = "live"
    /\ message' = "deleted"
    /\ lastReaction' = NoReaction
    /\ accepted' = FALSE
    /\ lastCall' = NoCall
    /\ ops' = <<>>
    /\ UNCHANGED <<things, per_page, invoker, page, stopped, loop>>
    /\ UNCHANGED <<cogVars, libVars>>

InitPager ==
    /\ NoCog
    /\ NoLib
    /\ things \in {[i \in 1..n |-> i] : n \in 0..MaxItems}
    /\ per_page \in 1..MaxPerPage
    /\ invoker \in Users
    /\ page = 0
    /\ stopped = FALSE
    /\ message = "none"
    /\ loop = "new"
    /\ lastReaction = NoReaction
    /\ accepted = FALSE
    /\ lastCall = NoCall
    /\ ops = <<>>

NextPager ==
    \/ \E outcome \in {"ok", "send_failed", "add_reaction_failed"} : create(outcome)
    \/ \E reaction \in Reactions, fail \in Failures : handle_events(reaction, fail)
    \/ external_delete

\* the pager driven by reactions and by direct calls of its methods
NextPagerApi ==
    \/ \E outcome \in {"ok", "send_failed", "add_reaction_failed"} : create(outcome)
    \/ \E reaction \in Reactions, fail \in Failures : handle_events(reaction, fail)
    \/ \E op \in {"stop", "previous", "next"}, fail \in Failures : call(op, fail)
    \/ external_delete

(*************************** Configuration loader **************************)

\* A Python value: its class, its text when it is a scalar, and its items
\* (pairs of sub-key and text) when it is a mapping.
Value(type, val, items) == [type |-> type, val |-> val, items |-> items]

None == Value("NoneType", "None", {})

\* NO_DEFAULT = object(): a sentinel that is compared by identity
NO_DEFAULT == Value("object", "NO_DEFAULT", {})

IntValue(val) == Value("int", val, {})

DictValue(items) == Value("dict", "", items)

\* the sub-keys a mapping-valued field may hold
SubKeys == {"max", "min"}

\* the defaults a class declares its fields with: none, a number, a mapping
\* of one sub-key, a mapping of both
Defaults ==
    {NO_DEFAULT, IntValue("3"), DictValue({<<"max", "10">>}),
     DictValue({<<"max", "10">>, <<"min", "10">>})}

\* the values a loaded document gives a key: null, a number, a mapping of
\* any of the sub-keys
LoadedValues ==
    {None, IntValue("20")} \cup {DictValue(SubKeys_ \X {"20"}) : SubKeys_ \in SUBSET SubKeys}

\* the field_type a Field may be declared with
FieldTypes == {"Any", "int", "dict"}

\* Field.__init__(field_type, *, default=NO_DEFAULT, optional=False)
Field(field_type, default, optional) ==
    [type |-> field_type, default |-> default, optional |-> optional]

Fields == {Field(t, d, o) : t \in FieldTypes, d \in Defaults, o \in BOOLEAN}

\* a class attribute that is not a Field (a method, loaded_from, ...)
NotAField == [kind |-> "method"]

\* isinstance(field, Field)
isField(field) == "default" \in DOMAIN field

\* dir(self): the attribute names of the Config subclass, sorted
dir_self == <<"limits", "retries">>

Keys == {dir_self[i] : i \in DOMAIN dir_self}

\* isinstance(value, field.type), mutated: None passes for every type
isinstance_NoneOk(value, type) == value = None \/ value.type = type

\* isinstance(value, field.type)
isinstance(value, type) == value.type = type

\* data.get(key, default), mutated: a mapping found under key is merged onto
\* a mapping default
get_Merged(mapping, key, default) ==
    IF key \notin DOMAIN mapping THEN default
    ELSE IF mapping[key].type = "dict" /\ default.type = "dict"
         THEN DictValue(mapping[key].items
                        \cup {item \in default.items :
                                 \A loaded \in mapping[key].items : loaded[1] # item[1]})
         ELSE mapping[key]

\* data.get(key, default)
get(mapping, key, default) ==
    IF key \in DOMAIN mapping THEN mapping[key] ELSE default

\* self.__dict__[key] = value
setitem(dict, key, value) ==
    [k \in DOMAIN dict \cup {key} |-> IF k = key THEN value ELSE dict[k]]

\* self.__dict__.update(data)
dict_update(dict, other) ==
    [k \in DOMAIN dict \cup DOMAIN other |-> IF k \in DOMAIN other THEN other[k] ELSE dict[k]]

ConfigError(dict, key, why) ==
    [status |-> "ConfigError", dict |-> dict, key |-> key, why |-> why]

RECURSIVE init_loop(_, _)
\* Config.__init__ from the i-th key of dir(self) on, with self.__dict__ as
\* the keys before it left it
init_loop(i, dict) ==
    IF i > Len(dir_self)
    THEN [status |-> "ok", dict |-> IF strict THEN dict ELSE dict_update(dict, data)]
    ELSE LET key == dir_self[i]
             field == fields[key]
         IN  IF ~isField(field) THEN init_loop(i + 1, dict)
             ELSE IF key \notin DOMAIN data /\ (~field.optional /\ field.default = NO_DEFAULT)
             THEN ConfigError(dict, key, "missing")
             ELSE LET value == get(data, key,
                                   IF field.default = NO_DEFAULT THEN None ELSE field.default)
                  IN  IF field.type # "Any" /\ ~isinstance(value, field.type)
                      THEN ConfigError(dict, key, "type")
                      ELSE init_loop(i + 1, setitem(dict, key, value))

\* Config.__init__(data)
Config_init ==
    /\ instance.status = "none"
    /\ instance' = init_loop(1, <<>>)
    /\ UNCHANGED <<fields, strict, data>>
    /\ UNCHANGED <<cogVars, pagerVars, contextVars, errorsVars>>

InitConfig ==
    /\ NoCog
    /\ NoPager
    /\ NoContext
    /\ NoErrors
    /\ fields \in [Keys -> Fields \cup {NotAField}]
    /\ strict \in BOOLEAN
    /\ data \in UNION {[K -> LoadedValues] : K \in SUBSET Keys}
    /\ instance = [status |-> "none", dict |-> <<>>]

NextConfig == Config_init

(***************************** Command context *****************************)

\* the channels the bot sees: two channels of a guild and its direct-message
\* channel with each person
TextChannel(id) == [id |-> id, kind |-> "TextChannel"]

DMChannel(recipient) == [id |-> recipient.id, kind |-> "DMChannel"]

People == {user \in Users : ~user.bot}

Channels ==
    {TextChannel("general"), TextChannel("random")}
    \cup {DMChannel(user) : user \in People}

\* the message events the platform may dispatch: anybody writes in a guild
\* channel; in a direct-message channel the recipient or the bot itself
Messages ==
    {msg \in [channel : Channels, author : Users] :
        msg.channel.kind = "DMChannel"
            => (msg.author.bot \/ msg.author.id = msg.channel.id)}

\* the contexts a command may be invoked in: by a person, in a guild channel
\* or in that person's direct-message channel
Contexts == {c \in Messages : ~c.author.bot}

\* the predicate `check` of Context.wait_for_response
check(msg) ==
    IF msg.channel.kind = "DMChannel" THEN TRUE
    ELSE msg.channel = ctx.channel /\ msg.author = ctx.author

\* Context.wait_for_response, up to the await of bot.wait_for
wait_for_response ==
    /\ waiting = "idle"
    /\ waiting' = "waiting"
    /\ lastMessage' = NoMessage
    /\ UNCHANGED <<ctx, response, acknowledgement, picker>>
    /\ UNCHANGED <<cogVars, pagerVars, configVars, errorsVars>>

\* the platform dispatches a message event: bot.wait_for hands it to check
\* and, when check accepts it, wait_for_response returns it
on_message(msg) ==
    /\ waiting = "waiting"
    /\ lastMessage' = msg
    /\ IF check(msg)
       THEN response' = msg /\ waiting' = "returned"
       ELSE UNCHANGED <<response, waiting>>
    /\ UNCHANGED <<ctx, acknowledgement, picker>>
    /\ UNCHANGED <<cogVars, pagerVars, configVars, errorsVars>>

\* actions = [self.message.add_reaction, self.send, self.author.send]
actions == <<"message.add_reaction", "send", "author.send">>

\* how awaiting one of the actions may end: it returns, it raises
\* discord.HTTPException (or a subclass), it raises something else
Outcomes == {"ok", "HTTPException", "Exception"}

RECURSIVE ok_loop_NoBreak(_, _, _)
\* the for loop of Context.ok, mutated: no break after a success
ok_loop_NoBreak(i, outcomes, attempts) ==
    IF i > Len(actions) THEN [status |-> "returned", attempts |-> attempts]
    ELSE LET now == Append(attempts, [action |-> actions[i], outcome |-> outcomes[i]])
         IN  IF outcomes[i] = "Exception" THEN [status |-> "raised", attempts |-> now]
             ELSE ok_loop_NoBreak(i + 1, outcomes, now)

RECURSIVE ok_loop(_, _, _)
\* the for loop of Context.ok from the i-th action on
ok_loop(i, outcomes, attempts) ==
    IF i > Len(actions) THEN [status |-> "returned", attempts |-> attempts]
    ELSE LET now == Append(attempts, [action |-> actions[i], outcome |-> outcomes[i]])
         IN  CASE outcomes[i] = "ok" -> [status |-> "returned", attempts |-> now]
               [] outcomes[i] = "HTTPException" -> ok_loop(i + 1, outcomes, now)
               [] OTHER -> [status |-> "raised", attempts |-> now]

\* Context.ok(emoji); outcomes[i] is how the i-th action would end
ok(outcomes) ==
    /\ acknowledgement = NoAck
    /\ acknowledgement' = ok_loop(1, outcomes, <<>>)
    /\ lastMessage' = NoMessage
    /\ UNCHANGED <<ctx, waiting, response, picker>>
    /\ UNCHANGED <<cogVars, pagerVars, configVars, errorsVars>>

InitContext ==
    /\ NoCog
    /\ NoPager
    /\ NoConfig
    /\ NoErrors
    /\ ctx \in Contexts
    /\ waiting = "idle"
    /\ lastMessage = NoMessage
    /\ response = NoMessage
    /\ acknowledgement = NoAck
    /\ picker = NewPicker(<<>>, FALSE, 0)

NextContext ==
    \/ wait_for_response
    \/ \E msg \in Messages : on_message(msg)
    \/ \E outcomes \in [DOMAIN actions -> Outcomes] : ok(outcomes)

(* Context.pick_from_list, one step per stretch between two awaits of     *)
(* wait_for_response; the sends and deletes of a stretch are recorded.     *)

\* the characters a reply is written with
Chars == {"0", "1", "2", "-", "x"}

\* the content 'cancel'
CancelWord == <<"c", "a", "n", "c", "e", "l">>

\* msg.content of the replies: 'cancel', nothing (a message that is only an
\* attachment), one character or two
Contents ==
    {CancelWord, <<>>} \cup {<<c>> : c \in Chars} \cup {<<c, d>> : c \in Chars, d \in Chars}

\* the value of a decimal digit
DigitValue ==
    [c \in {"0", "1", "2", "3", "4", "5", "6", "7", "8", "9"} |->
        CASE c = "0" -> 0 [] c = "1" -> 1 [] c = "2" -> 2 [] c = "3" -> 3
          [] c = "4" -> 4 [] c = "5" -> 5 [] c = "6" -> 6 [] c = "7" -> 7
          [] c = "8" -> 8 [] c = "9" -> 9]

RECURSIVE decimal(_, _)
\* the number written by the digits of text, after the digits read so far
\* gave acc
decimal(text, acc) ==
    IF text = <<>> THEN acc
    ELSE decimal(Tail(text), acc * 10 + DigitValue[Head(text)])

\* int(msg.content): an optional minus sign and at least one digit, or
\* ValueError
int(content) ==
    LET digits == IF content # <<>> /\ Head(content) = "-" THEN Tail(content) ELSE content
    IN  IF digits = <<>> \/ \E i \in DOMAIN digits : digits[i] \notin DOMAIN DigitValue
        THEN [error |-> "ValueError", value |-> 0]
        ELSE [error |-> "none",
              value |-> IF Head(content) = "-" THEN 0 - decimal(digits, 0)
                        ELSE decimal(digits, 0)]

\* `if remaining_tries <= 0`, mutated: one more try is granted
out_of_tries_Late(remaining_tries) == remaining_tries < 0

\* `if remaining_tries <= 0`
out_of_tries(remaining_tries) == remaining_tries <= 0

\* the top of `while True` with the frame p: give up, or wait for a response
loop_top(p) ==
    IF out_of_tries(p.remaining_tries)
    THEN [p EXCEPT !.pc = "returned", !.picked = NonePicked,
                   !.calls = Append(@, "send: You ran out of tries, I give up!")]
    ELSE [p EXCEPT !.pc = "waiting"]

\* the body of `while True` from the return of wait_for_response on, with
\* the frame p and the content of the message it returned
loop_body(p, content) ==
    LET chosen_index == int(content).value - 1
        invalid(text) ==
            loop_top([p EXCEPT !.remaining_tries = @ - 1,
                               !.calls = Append(@, text)])
    IN  IF content = CancelWord
        THEN [p EXCEPT !.pc = "returned", !.calls = Append(@, "send: Canceled selection.")]
        ELSE IF int(content).error = "ValueError"
        THEN invalid("send: Invalid number. Send the number of the item you want.")
        ELSE IF chosen_index < 0 \/ chosen_index > Len(p.choices) - 1
        THEN invalid("send: Invalid choice. Send the number of the item you want.")
        ELSE [p EXCEPT !.pc = "returned", !.picked = p.choices[chosen_index + 1],
                       !.calls = IF p.delete_after_choice
                                 THEN @ \o <<"choices_message.delete", "msg.delete">>
                                 ELSE @]

\* Context.pick_from_list up to its first await of wait_for_response
pick_from_list ==
    /\ picker.pc = "new"
    /\ picker' = loop_top([picker EXCEPT !.calls = <<"send: Pick one, or send cancel.">>])
    /\ lastMessage' = NoMessage
    /\ UNCHANGED <<ctx, waiting, response, acknowledgement>>
    /\ UNCHANGED <<cogVars, pagerVars, configVars, errorsVars>>

\* the platform dispatches a message event while pick_from_list waits, and
\* check accepts it: wait_for_response returns it and the loop goes on to
\* its next await or to its return
pick_response(msg, content) ==
    /\ picker.pc = "waiting"
    /\ check(msg)
    /\ lastMessage' = msg
    /\ picker' = loop_body([picker EXCEPT !.heard = [accepted |-> TRUE, content |-> content],
                                          !.calls = <<>>], content)
    /\ UNCHANGED <<ctx, waiting, response, acknowledgement>>
    /\ UNCHANGED <<cogVars, pagerVars, configVars, errorsVars>>

\* the platform dispatches a message event while pick_from_list waits, and
\* check turns it down: bot.wait_for goes on waiting
pick_ignored(msg) ==
    /\ picker.pc = "waiting"
    /\ ~check(msg)
    /\ lastMessage' = msg
    /\ picker' = [picker EXCEPT !.heard = NoResponse, !.calls = <<>>]
    /\ UNCHANGED <<ctx, waiting, response, acknowledgement>>
    /\ UNCHANGED <<cogVars, pagerVars, configVars, errorsVars>>

InitPick ==
    /\ NoCog
    /\ NoPager
    /\ NoConfig
    /\ NoErrors
    \* the invoker is ann: the people are interchangeable
    /\ ctx \in {c \in Contexts : c.author.id = "ann"}
    /\ waiting = "idle"
    /\ lastMessage = NoMessage
    /\ response = NoMessage
    /\ acknowledgement = NoAck
    /\ picker \in {NewPicker([i \in 1..n |-> [item |-> i]], d, tries) :
                      n \in 0..MaxChoices, d \in BOOLEAN, tries \in 0..MaxTries}

NextPick ==
    \/ pick_from_list
    \/ \E msg \in Messages, content \in Contents : pick_response(msg, content)
    \/ \E msg \in Messages : pick_ignored(msg)

(************************** Command error handler **************************)

\* the exception classes: those of discord.ext.commands with their base
\* class, and the two of this library directly under CommandError
Parent ==
    [Exception |-> "",
     CommandError |-> "Exception",
     MessageError |-> "CommandError",
     SubcommandInvocationRequired |-> "CommandError",
     CommandNotFound |-> "CommandError",
     CommandInvokeError |-> "CommandError",
     DisabledCommand |-> "CommandError",
     UserInputError |-> "CommandError",
     BadArgument |-> "UserInputError",
     MissingRequiredArgument |-> "UserInputError",
     CheckFailure |-> "CommandError",
     BotMissingPermissions |-> "CheckFailure",
     MissingPermissions |-> "CheckFailure",
     NoPrivateMessage |-> "CheckFailure",
     NotOwner |-> "CheckFailure"]

Classes == DOMAIN Parent

RECURSIVE issubclass(_, _)
\* isinstance(error, base) for an error of class cls
issubclass(cls, base) ==
    IF cls = base THEN TRUE
    ELSE IF cls \notin Classes THEN FALSE
    ELSE issubclass(Parent[cls], base)

handler(type, message_format, do_append_message) ==
    [type |-> type, message_format |-> message_format,
     do_append_message |-> do_append_message]

\* Errors.error_handlers, in the order of the OrderedDict
error_handlers ==
    <<handler("BotMissingPermissions", "Permissions error", TRUE),
      handler("MissingPermissions", "Permissions error", TRUE),
      handler("NoPrivateMessage", "You can't do that in a direct message.", FALSE),
      handler("NotOwner", "Only of the owner of this bot can do that.", FALSE),
      handler("DisabledCommand", "This command has been disabled.", FALSE),
      handler("UserInputError", "User input error", TRUE),
      handler("CheckFailure", "Permissions error", TRUE),
      handler("SubcommandInvocationRequired",
              "You need to specify a subcommand to run. Run {prefix}help {command} for help.",
              FALSE)>>

HandlerTypes == {error_handlers[i].type : i \in DOMAIN error_handlers}

\* filtered_handlers, mutated: ignored_errors is not looked at
filtered_handlers_Unfiltered == error_handlers

\* filtered_handlers: the entries whose key is not in ignored_errors
filtered_handlers ==
    SelectSeq(error_handlers, LAMBDA entry : entry.type \notin ignored_errors)

RECURSIVE first_handler(_, _, _)
\* the for loop over filtered_handlers.items() from the i-th entry on: the
\* index of the entry it answers with, or 0
first_handler(handlers, err, i) ==
    IF i > Len(handlers) THEN 0
    ELSE IF ~issubclass(err, handlers[i].type) THEN first_handler(handlers, err, i + 1)
    ELSE i

\* the identifiers secrets.token_hex may return
InsectIds == {"c0ffee", "decade"}

\* the list create_insect stores: insects.get('insects') or [], one record
\* appended
create_insect(err, insect_id) ==
    Append(insects, [id |-> insect_id, traceback |-> err])

Response(kind, text, appended) == [kind |-> kind, text |-> text, appended |-> appended]

\* Errors.on_command_error(ctx, error); insect_id is what make_insect_id
\* would return
on_command_error(err, insect_id) ==
    LET handlers == filtered_handlers
        found == first_handler(handlers, err, 1)
    IN  /\ Len(insects) < MaxInsects    \* exploration horizon, not in the code
        /\ error' = err
        /\ IF issubclass(err, "MessageError")
           THEN /\ sent' = <<Response("MessageError", "", err)>>
                /\ UNCHANGED insects
           ELSE IF issubclass(err, "BadArgument")
           THEN /\ sent' = <<Response("BadArgument", "Bad argument. ", err)>>
                /\ UNCHANGED insects
           ELSE IF found # 0
           THEN /\ sent' = <<Response(handlers[found].type, handlers[found].message_format,
                                      IF handlers[found].do_append_message THEN err ELSE "")>>
                /\ UNCHANGED insects
           ELSE IF issubclass(err, "CommandInvokeError")
           THEN /\ insects' = create_insect(err, insect_id)
                /\ sent' = <<Response("insect", "Something went wrong. BUG ", insect_id)>>
           ELSE /\ sent' = <<>>
                /\ UNCHANGED insects
        /\ UNCHANGED <<ignored_errors, failures, insect_creation_lock, clock>>
        /\ UNCHANGED <<cogVars, pagerVars, configVars, contextVars>>

InitErrors ==
    /\ NoCog
    /\ NoPager
    /\ NoConfig
    /\ NoContext
    /\ ignored_errors \in SUBSET HandlerTypes
    /\ error = ""
    /\ sent = <<>>
    /\ insects = <<>>
    /\ failures = <<>>
    /\ insect_creation_lock = 0
    /\ clock = 0

NextErrors == \E err \in Classes, insect_id \in InsectIds : on_command_error(err, insect_id)

(* Unexpected failures handled at the same time: on_command_error from   *)
(* its call of create_insect on, one step per stretch between two awaits.  *)

\* where a failure stands: before `async with self.insect_creation_lock`, in
\* `await self.insects.put`, in `await ctx.send`, or past it
NewFailure == [pc |-> "acquire", insects |-> <<>>, insect_id |-> "", reported |-> ""]

\* a record that an earlier run left in insects.json
OldInsect == [id |-> "c0ffee", creation_time |-> 0, traceback |-> "CommandInvokeError"]

\* AsyncJSONStorage.get('insects'): the list stored last, nothing when none
storage_get == insects

\* AsyncJSONStorage.put('insects', value): value is what is stored from then on
storage_put(value) == value

\* asyncio.Lock.locked(), mutated: the lock never holds anybody back
locked_Never == FALSE

\* asyncio.Lock.locked(): somebody is inside `async with`
locked == insect_creation_lock # 0

\* create_insect from `async with` to the await of put: the lock is taken as
\* soon as it is free (which of the waiting calls gets it is left open), the
\* stored list is read and the new record appended to it
acquire(f, insect_id) ==
    /\ f \in DOMAIN failures
    /\ failures[f].pc = "acquire"
    /\ ~locked
    /\ insect_creation_lock' = f
    /\ clock' = clock + 1
    /\ failures' = [failures EXCEPT ![f] =
           [@ EXCEPT !.pc = "put", !.insect_id = insect_id,
                     !.insects = Append(storage_get,
                                        [id |-> insect_id, creation_time |-> clock + 1,
                                         traceback |-> "CommandInvokeError"])]]
    /\ UNCHANGED <<ignored_errors, error, sent, insects>>
    /\ UNCHANGED <<cogVars, pagerVars, configVars, contextVars>>

\* `await self.insects.put('insects', insects)` returns: the list is stored,
\* the lock is released on the way out of `async with`, and create_insect
\* returns the id
put(f) ==
    /\ f \in DOMAIN failures
    /\ failures[f].pc = "put"
    /\ insects' = storage_put(failures[f].insects)
    /\ insect_creation_lock' = IF insect_creation_lock = f THEN 0 ELSE insect_creation_lock
    /\ failures' = [failures EXCEPT ![f].pc = "send"]
    /\ UNCHANGED <<ignored_errors, error, sent, clock>>
    /\ UNCHANGED <<cogVars, pagerVars, configVars, contextVars>>

\* await ctx.send(f'Something went wrong. BUG `{insect_id}`')
send_insect(f) ==
    /\ f \in DOMAIN failures
    /\ failures[f].pc = "send"
    /\ failures' = [failures EXCEPT ![f].pc = "done", ![f].reported = failures[f].insect_id]
    /\ UNCHANGED <<ignored_errors, error, sent, insects, insect_creation_lock, clock>>
    /\ UNCHANGED <<cogVars, pagerVars, configVars, contextVars>>

InitInsects ==
    /\ NoCog
    /\ NoPager
    /\ NoConfig
    /\ NoContext
    /\ ignored_errors = {}
    /\ error = ""
    /\ sent = <<>>
    /\ insects \in {<<>>, <<OldInsect>>}
    /\ failures \in {[f \in 1..n |-> NewFailure] : n \in 1..MaxFailures}
    /\ insect_creation_lock = 0
    /\ clock = 0

NextInsects ==
    \/ \E f \in 1..MaxFailures, insect_id \in InsectIds : acquire(f, insect_id)
    \/ \E f \in 1..MaxFailures : put(f)
    \/ \E f \in 1..MaxFailures : send_insect(f)

(***************************** Specifications ******************************)

vars == <<cogVars, pagerVars, libVars>>

\* a cog and its scheduled tasks
SpecCog == InitCog /\ [][NextCog]_vars

\* a list pager and the reactions dispatched to it
SpecPager == InitPager /\ [][NextPager]_vars

\* a list pager, the reactions dispatched to it and calls of its methods
SpecPagerApi == InitPager /\ [][NextPagerApi]_vars

\* the construction of one Config from one loaded mapping
SpecConfig == InitConfig /\ [][NextConfig]_vars

\* one command context, the messages dispatched while it waits for a
\* response, and its acknowledgement
SpecContext == InitContext /\ [][NextContext]_vars

\* one call of pick_from_list and the messages dispatched while it waits
SpecPick == InitPick /\ [][NextPick]_vars

\* the error handler of one bot and the command errors handed to it
SpecErrors == InitErrors /\ [][NextErrors]_vars

\* unexpected command failures handled at the same time
SpecInsects == InitInsects /\ [][NextInsects]_vars

(********************************* Claims **********************************)

\* the key and the schedule of the method task t was created for
OwnKey(t) == MarkedKeys[t]
OwnSchedule(t) == attrs[OwnKey(t)]["_schedule"]

IsSet(sched, option) == option \in DOMAIN sched /\ sched[option]

\* seconds slept by the events of log before position n
SleptBefore(log, n) ==
    Sum([i \in 1..(n - 1) |-> IF log[i].ev = "sleep" THEN log[i].arg ELSE 0])

\* number of sleeps among the events of log strictly between positions m and n
SleepsBetween(log, m, n) ==
    Cardinality({i \in (m + 1)..(n - 1) : log[i].ev = "sleep"})

Tasks == DOMAIN scheduled_tasks

HasInvoked(t) == Invocations(scheduled_tasks[t]) # <<>>

FirstInvocation(t) == Head(Invocations(scheduled_tasks[t]))

C2_OneSleepBetweenInvocations ==
    \A t \in Tasks :
        LET log == scheduled_tasks[t].log
            inv == Invocations(scheduled_tasks[t])
        IN \A k \in 1..(Len(inv) - 1) : SleepsBetween(log, inv[k], inv[k + 1]) = 1

\* C3: initialization creates one task per marked method, and the i-th task
\* invokes the i-th marked method, sleeping that method's own interval.
C3_TaskRunsItsOwnMethod ==
    initialized =>
        /\ Len(scheduled_tasks) = Len(MarkedKeys)
        /\ \A t \in Tasks :
              \A i \in DOMAIN scheduled_tasks[t].log :
                  LET e == scheduled_tasks[t].log[i]
                  IN /\ e.ev = "invoke" => e.arg = OwnKey(t)
                     /\ e.ev = "sleep" => e.arg = OwnSchedule(t)["interval"]

\* C4: once __unload has run, cancel has been called on every task handle,
\* every task is over (cancelled, or ended before) whichever suspend point it
\* was at, no task makes another step or invocation, and a further __unload
\* changes no task.
C4_UnloadStopsEveryTask ==
    [][unloads' >= 1 =>
          /\ \A t \in DOMAIN scheduled_tasks' :
                /\ scheduled_tasks'[t].cancels >= 1
                /\ scheduled_tasks'[t].pc \in {"cancelled", "failed"}
          /\ unloads >= 1 =>
                /\ DOMAIN scheduled_tasks' = DOMAIN scheduled_tasks
                /\ \A t \in DOMAIN scheduled_tasks :
                      /\ scheduled_tasks'[t].pc = scheduled_tasks[t].pc
                      /\ scheduled_tasks'[t].log = scheduled_tasks[t].log]_vars

\* __unload ran twice on a cog with a task cancelled inside the operation,
\* one cancelled in a sleep and so on: here one cancelled inside the operation
\* next to one cancelled before its first invocation
C4_Witness ==
    /\ unloads = 2
    /\ \E t, u \in Tasks :
          /\ scheduled_tasks[t].pc = "cancelled"
          /\ scheduled_tasks[t].log # <<>>
          /\ Last(scheduled_tasks[t].log).ev = "invoke"
          /\ scheduled_tasks[u].pc = "cancelled"
          /\ ~HasInvoked(u)

\* C5: a failure raised by an invocation does not end the recurring schedule:
\* unless cancelled, the task stays in its loop and will invoke again.
C5_FailureKeepsSchedule ==
    \A t \in Tasks :
        LET task == scheduled_tasks[t]
        IN (task.log # <<>> /\ Last(task.log).ev = "raise" /\ task.cancels = 0)
               => task.pc \in {"sleep_initial", "sleep_interval", "in_func"}

\* C6: a scheduled operation waits for the readiness signal iff its
\* wait_until_ready option is true: with the option true no invocation comes
\* before the signal, with the option false or absent the task never blocks
\* on the signal.
C6_WaitsForReadyIffOptionTrue ==
    \A t \in Tasks :
        IF IsSet(OwnSchedule(t), "wait_until_ready")
        THEN \A i \in DOMAIN scheduled_tasks[t].log :
                 scheduled_tasks[t].log[i].ev = "invoke" => scheduled_tasks[t].log[i].ready
        ELSE ~(scheduled_tasks[t].pc = "wait_ready" /\ ~ready)

\* C7: the page index of a pager is always a valid page: 0 <= page < maxPages,
\* for any item count N >= 0 and page size P >= 1.
C7_PageInRange == 0 <= page /\ page < max_pages

\* C8: maxPages is ceil(N / P), and at least 1 even when N = 0.
C8_MaxPagesIsCeilAndPositive ==
    /\ max_pages * per_page >= Len(things)
    /\ (max_pages - 1) * per_page < Len(things)
    /\ max_pages >= 1

Edits(calls) == {i \in DOMAIN calls : calls[i] = "edit"}

\* C9: previous() at page 0 and next() at page maxPages - 1 leave the page
\* index unchanged and edit no message.
C9_NoOpAtTheEnds ==
    [][(/\ lastReaction' # NoReaction
        /\ accepted'
        /\ \/ lastReaction'.emoji = PreviousEmoji /\ page = 0
           \/ lastReaction'.emoji = NextEmoji /\ page = max_pages - 1)
          => page' = page /\ Edits(ops') = {}]_vars

\* next was clicked on the last page of a pager of several pages
C9_Witness ==
    /\ accepted
    /\ lastReaction.emoji = NextEmoji
    /\ max_pages >= 2
    /\ page = max_pages - 1
    /\ Edits(ops) = {}

\* the four conditions of the input event filter
Acceptable(reaction) ==
    /\ reaction.user.bot = FALSE
    /\ reaction.emoji \in {StopEmoji, PreviousEmoji, NextEmoji}
    /\ reaction.message_id = OwnMessage
    /\ reaction.user = invoker

\* C10: a reaction event is accepted only if the user is no bot account, the
\* emoji is one of the three controls, the message is the pager's own and the
\* user is the invoker; any other event changes neither page, stopped flag nor
\* message and causes no edit, delete or reaction removal.
C10_OnlyTheInvokersControlsAct ==
    [][lastReaction' # NoReaction =>
          /\ accepted' => Acceptable(lastReaction')
          /\ ~Acceptable(lastReaction') =>
                /\ page' = page
                /\ stopped' = stopped
                /\ message' = message
                /\ loop' = loop
                /\ ops' = <<>>]_vars

\* somebody who is not the invoker clicked next on the pager's message, and
\* the pager stayed on its page, still waiting
C10_Witness ==
    /\ lastReaction # NoReaction
    /\ ~lastReaction.user.bot
    /\ lastReaction.user # invoker
    /\ lastReaction.emoji = NextEmoji
    /\ lastReaction.message_id = OwnMessage
    /\ ~accepted
    /\ loop = "waiting"
    /\ page = 0
    /\ max_pages >= 2

Min(a, b) == IF a < b THEN a ELSE b

\* the latest step handled an accepted reaction with one of the given emojis
Handled(reaction, wasAccepted, emojis) ==
    reaction # NoReaction /\ wasAccepted /\ reaction.emoji \in emojis

\* C11: stop() deletes the pager's message, and every next() or previous()
\* call made after stop() is a no-op: the page index is unchanged and no
\* message edit is performed (stated for a pager that has items, where
\* maxPages is what C8 says).
C11_NoOpAfterStop ==
    [][things # <<>> =>
          /\ (lastCall'.op = "stop" /\ lastCall'.exc = "none")
                => (message' = "deleted" /\ stopped')
          /\ (lastCall'.op \in {"previous", "next"} /\ stopped)
                => (page' = page /\ Edits(ops') = {})]_vars

\* C12: when a re-render finds the message missing (the edit fails with
\* NotFound), stopped becomes true, no error leaves the event loop, the loop
\* ends after this event, and no further edit or reaction removal is made.
C12_MissingMessageIsImplicitStop ==
    [][/\ (/\ Handled(lastReaction', accepted', {PreviousEmoji, NextEmoji})
           /\ message = "deleted"
           /\ Edits(ops') # {})
             => (stopped' /\ loop' = "ended" /\ ops' = <<"edit">>)
       /\ loop = "ended" => (loop' = "ended" /\ ops' \in {ops, <<>>})]_vars

\* the invoker turned the page after the message had been deleted by
\* somebody else: the edit was tried once and the loop has ended
C12_Witness ==
    /\ Handled(lastReaction, accepted, {NextEmoji})
    /\ message = "deleted"
    /\ ops = <<"edit">>
    /\ stopped
    /\ loop = "ended"
    /\ page = 1

\* page p shows items p*P .. min((p+1)*P, N)-1 of the list, in order
PageShows(p) ==
    LET lo == p * per_page
        hi == Min((p + 1) * per_page, Len(things))
        contents == get_page_contents(p)
    IN /\ Len(contents) = hi - lo
       /\ \A i \in 1..(hi - lo) : contents[i] = <<"BULLET", things[lo + i]>>

\* C13: page p (0 <= p < maxPages) shows exactly items p*P .. min((p+1)*P,
\* N)-1 in their order, so the pages partition the list; and k next() calls
\* from page 0 land on page min(k, maxPages-1), that is each next() from page
\* p lands on min(p+1, maxPages-1).
C13_PagesPartitionAndNextAdvances ==
    /\ [](\A p \in 0..(max_pages - 1) : PageShows(p))
    /\ [][(\/ lastCall'.op = "next"
           \/ Handled(lastReaction', accepted', {NextEmoji}))
             => page' = Min(page + 1, max_pages - 1)]_vars

\* C18: every accepted stop reaction brings the pager to the Stopped state
\* (stopped = true) with the wait loop ended, also when the message has been
\* deleted by somebody else so that the delete call fails.
C18_StopReactionStops ==
    [][Handled(lastReaction', accepted', {StopEmoji})
          => (stopped' /\ loop' = "ended")]_vars

Removals(calls) == {i \in DOMAIN calls : calls[i] = "remove_reaction"}

\* C19: after an accepted previous or next reaction that is processed (the
\* action raised nothing) and leaves the pager not stopped, the removal of the
\* reaction is the last call made, and whether or not it fails the loop waits
\* for the next event; after an event that leaves the pager stopped no removal
\* is attempted.
C19_ReactionRemovedUnlessStopped ==
    [][Handled(lastReaction', accepted', {StopEmoji, PreviousEmoji, NextEmoji}) =>
          LET actionRaised ==
                  loop' = "error" /\ ops' # <<>> /\ Last(ops') \in {"edit", "delete"}
          IN /\ (lastReaction'.emoji # StopEmoji /\ ~stopped' /\ ~actionRaised)
                   => (/\ ops' # <<>>
                       /\ Last(ops') = "remove_reaction"
                       /\ Cardinality(Removals(ops')) = 1
                       /\ loop' = "waiting")
             /\ stopped' => Removals(ops') = {}]_vars

\* previous was clicked on page 0 of a pager whose message is gone: the
\* removal, which can only fail, was tried and the loop waits on
C19_Witness ==
    /\ Handled(lastReaction, accepted, {PreviousEmoji})
    /\ message = "deleted"
    /\ ~stopped
    /\ ops = <<"remove_reaction">>
    /\ loop = "waiting"

\* the keys of the class that hold a Field
Declared == {key \in Keys : isField(fields[key])}

\* the items of the mapping `loaded` merged onto those of the mapping `default`
MergedOnto(default, loaded) ==
    loaded.items
    \cup {item \in default.items : \A other \in loaded.items : other[1] # item[1]}

\* the construction has succeeded and key is a field declared with a default
Defaulted(key) ==
    /\ instance.status = "ok"
    /\ key \in Declared
    /\ fields[key].default # NO_DEFAULT

\* C14: loading merges the loaded mapping onto the class-declared defaults: a
\* top-level default absent from the loaded data is kept; for a
\* mapping-valued field the loaded sub-keys are merged onto the default's
\* sub-keys (default sub-keys the loaded mapping omits are kept); non-mapping
\* values overwrite outright.
C14_NestedMappingsAreMerged ==
    \A key \in Keys : Defaulted(key) =>
        /\ key \notin DOMAIN data => instance.dict[key] = fields[key].default
        /\ (key \in DOMAIN data /\ data[key].type # "dict")
              => instance.dict[key] = data[key]
        /\ (key \in DOMAIN data /\ data[key].type = "dict"
                                /\ fields[key].default.type = "dict")
              => instance.dict[key] = DictValue(MergedOnto(fields[key].default, data[key]))

\* C14, amended: a top-level default absent from the loaded data is kept; a
\* value that the loaded data holds for a field replaces the field's default
\* wholesale, mapping or not: the sub-keys of a mapping default that the
\* loaded mapping omits are not kept.
C14_LoadedValueReplacesDefault ==
    \A key \in Keys : Defaulted(key) =>
        /\ key \notin DOMAIN data => instance.dict[key] = fields[key].default
        /\ key \in DOMAIN data => instance.dict[key] = data[key]

\* a construction that kept the default of "retries" and was given a mapping
\* for "limits" that omits a sub-key of its default
C14_Witness ==
    /\ Defaulted("limits") /\ Defaulted("retries")
    /\ "retries" \notin DOMAIN data
    /\ instance.dict["retries"] = IntValue("3")
    /\ fields["limits"].default = DictValue({<<"max", "10">>, <<"min", "10">>})
    /\ "limits" \in DOMAIN data
    /\ data["limits"] = DictValue({<<"max", "20">>})
    /\ instance.dict["limits"] = DictValue({<<"max", "20">>})

\* the field at key is required: not optional, and declared without default
Required(key) == ~fields[key].optional /\ fields[key].default = NO_DEFAULT

\* the value the field at key ends up with: the loaded one, else the default,
\* else None
Resulting(key) ==
    IF key \in DOMAIN data THEN data[key]
    ELSE IF fields[key].default = NO_DEFAULT THEN None ELSE fields[key].default

FailsTypeCheck(key) ==
    fields[key].type # "Any" /\ Resulting(key).type # fields[key].type

C16_ResponseIsTheInvokersInTheSameChannel ==
    waiting = "returned" => (response.author = ctx.author /\ response.channel = ctx.channel)

\* the actions of the attempts, in the order they were tried
Tried == [i \in DOMAIN acknowledgement.attempts |-> acknowledgement.attempts[i].action]

Succeeded == {i \in DOMAIN acknowledgement.attempts : acknowledgement.attempts[i].outcome = "ok"}

HTTPFailed ==
    {i \in DOMAIN acknowledgement.attempts : acknowledgement.attempts[i].outcome = "HTTPException"}

\* C17: Context.ok tries react-to-message, send-in-channel,
\* direct-message-author in that order, stops at the first one that succeeds
\* (at most one succeeds and none after it is attempted), and when all three
\* fail with an HTTP error it returns normally.
C17_FirstSuccessfulAcknowledgementWins ==
    acknowledgement # NoAck =>
        /\ Tried = SubSeq(<<"message.add_reaction", "send", "author.send">>, 1, Len(Tried))
        /\ Len(Tried) >= 1
        /\ \A i \in 1..(Len(Tried) - 1) : i \in HTTPFailed
        /\ Cardinality(Succeeded) <= 1
        /\ Succeeded # {} => (Succeeded = {Len(Tried)} /\ acknowledgement.status = "returned")
        /\ Cardinality(HTTPFailed) = Len(Tried)
              => (Len(Tried) = 3 /\ acknowledgement.status = "returned")

\* the reaction and the message failed, the direct message went through
C17_Witness ==
    /\ acknowledgement.status = "returned"
    /\ Len(acknowledgement.attempts) = 3
    /\ HTTPFailed = {1, 2}
    /\ Succeeded = {3}

\* the base classes of cls, cls included
Bases(cls) == {base \in Classes : issubclass(cls, base)}

\* the entries of the handler table that may answer err: not ignored, and
\* of a type err is an instance of
Candidates(err) ==
    {i \in DOMAIN error_handlers :
        error_handlers[i].type \notin ignored_errors /\ error_handlers[i].type \in Bases(err)}

\* C20: the error handler sends at most one response per error, first match
\* wins: MessageError, then BadArgument, then the first entry of the ordered
\* handler table (entries whose type is in the ignored set excluded) whose
\* type the error is an instance of, and only if none matched and the error
\* is a CommandInvokeError the insect report; otherwise no response.
C20_FirstMatchingHandlerAnswers ==
    error # "" =>
        /\ Len(sent) <= 1
        /\ CASE "MessageError" \in Bases(error) ->
                    Len(sent) = 1 /\ sent[1].kind = "MessageError"
             [] "MessageError" \notin Bases(error) /\ "BadArgument" \in Bases(error) ->
                    Len(sent) = 1 /\ sent[1].kind = "BadArgument"
             [] {"MessageError", "BadArgument"} \cap Bases(error) = {} /\ Candidates(error) # {} ->
                    /\ Len(sent) = 1
                    /\ \E i \in Candidates(error) :
                          /\ \A j \in Candidates(error) : i <= j
                          /\ sent[1].kind = error_handlers[i].type
                          /\ sent[1].text = error_handlers[i].message_format
             [] OTHER ->
                    IF "CommandInvokeError" \in Bases(error)
                    THEN /\ Len(sent) = 1 /\ sent[1].kind = "insect"
                         /\ insects # <<>> /\ Last(insects).id = sent[1].appended
                    ELSE sent = <<>>

\* NotOwner is ignored and a NotOwner error is answered by the later entry
\* of its base class CheckFailure
C20_Witness ==
    /\ error = "NotOwner"
    /\ "NotOwner" \in ignored_errors
    /\ "CheckFailure" \notin ignored_errors
    /\ Len(sent) = 1
    /\ sent[1].kind = "CheckFailure"

\* the failures whose create_insect call has completed
Completed == {f \in DOMAIN failures : failures[f].pc \in {"send", "done"}}

\* the stored records that were created since the start
NewInsects == {i \in DOMAIN insects : insects[i].creation_time > 0}

\* C21: for any interleaving of concurrently handled unexpected failures,
\* each failure appends exactly one insect record to the persisted list and
\* none is lost or overwritten: after k create_insect calls have completed
\* the stored list holds the previous records plus k new ones, and the id
\* reported to each invoker is the id of a stored record.
C21_EveryFailureAddsOneInsect ==
    /\ [](/\ Cardinality(NewInsects) = Cardinality(Completed)
          /\ \A f \in DOMAIN failures : failures[f].pc = "done" =>
                 \E i \in DOMAIN insects : insects[i].id = failures[f].reported)
    /\ [][\A f \in DOMAIN failures :
             IF failures[f].pc = "put" /\ failures'[f].pc = "send"
             THEN /\ Len(insects') = Len(insects) + 1
                  /\ SubSeq(insects', 1, Len(insects)) = insects
                  /\ Last(insects').id = failures[f].insect_id
             ELSE (\A g \in DOMAIN failures : ~(failures[g].pc = "put" /\ failures'[g].pc = "send"))
                      => insects' = insects]_vars

\* two failures were handled at the same time, the second one first, after
\* an earlier record: the list holds all three
C21_Witness ==
    /\ Len(failures) = 2
    /\ \A f \in DOMAIN failures : failures[f].pc = "done"
    /\ Len(insects) = 3
    /\ insects[1] = OldInsect
    /\ insects[2].id = failures[2].reported
    /\ insects[3].id = failures[1].reported

\* the field at key is declared optional, without default, and the loaded
\* data does not hold it
OptionalAndAbsent(key) ==
    /\ key \in Declared
    /\ fields[key].optional
    /\ fields[key].default = NO_DEFAULT
    /\ key \notin DOMAIN data

\* C22: a field declared optional with no default that is absent from the
\* loaded data falls back to None, for every declared field type: the
\* construction does not fail on it, and where the construction succeeds the
\* field's value on the instance is None.
C22_OptionalFallsBackToNone ==
    \A key \in Keys : (instance.status # "none" /\ OptionalAndAbsent(key)) =>
        /\ ~(instance.status = "ConfigError" /\ instance.key = key)
        /\ instance.status = "ok" => instance.dict[key] = None

\* the invalid responses pick_from_list has consumed so far
Consumed == picker.tries - picker.remaining_tries

\* content is a number n with 1 <= n <= len(choices)
ValidChoice(content) ==
    /\ int(content).error = "none"
    /\ 1 <= int(content).value
    /\ int(content).value <= Len(picker.choices)

\* C23: pick_from_list grants exactly `tries` attempts: it returns
\* choices[n-1] as soon as a response is a number n with
\* 1 <= n <= len(choices), returns None as soon as a response is 'cancel',
\* and otherwise, once `tries` invalid responses have been received, stops
\* waiting and returns None; it never consumes more than `tries` invalid
\* responses.  A message of the invoker in the command's channel is always
\* taken as a response.
C23_ExactlyTriesAttempts ==
    /\ [](/\ 0 <= Consumed /\ Consumed <= picker.tries
          /\ picker.pc = "waiting" => Consumed < picker.tries
          /\ (picker.pc = "returned" /\ picker.picked # NonePicked)
                => \E i \in DOMAIN picker.choices : picker.picked = picker.choices[i])
    /\ [][/\ (picker.pc = "new" /\ picker'.pc # "new")
                => IF picker.tries = 0
                   THEN picker'.pc = "returned" /\ picker'.picked = NonePicked
                   ELSE picker'.pc = "waiting"
          /\ (picker.pc = "waiting" /\ lastMessage' = ctx) => picker'.heard.accepted
          /\ (picker.pc = "waiting" /\ picker'.heard.accepted) =>
                LET content == picker'.heard.content
                    consumed == picker'.tries - picker'.remaining_tries
                IN  CASE content = CancelWord ->
                           /\ picker'.pc = "returned" /\ picker'.picked = NonePicked
                           /\ consumed = Consumed
                      [] content # CancelWord /\ ValidChoice(content) ->
                           /\ picker'.pc = "returned"
                           /\ picker'.picked = picker.choices[int(content).value]
                           /\ consumed = Consumed
                      [] OTHER ->
                           /\ consumed = Consumed + 1
                           /\ IF consumed = picker.tries
                              THEN picker'.pc = "returned" /\ picker'.picked = NonePicked
                              ELSE picker'.pc = "waiting"
          /\ (picker.pc = "waiting" /\ ~picker'.heard.accepted)
                => (picker'.pc = "waiting" /\ picker'.remaining_tries = picker.remaining_tries)
          /\ picker.pc = "returned" => picker' = picker]_vars

\* three tries were granted, and the third invalid response ended the wait
C23_Witness ==
    /\ picker.pc = "returned"
    /\ picker.tries = 3
    /\ Consumed = 3
    /\ picker.heard = [accepted |-> TRUE, content |-> <<"x">>]
    /\ picker.picked = NonePicked
    /\ Len(picker.choices) = 2

====
